---- MODULE Spec2Model ----
(***************************************************************************)
(* Model of src/src/scripts/assetManager.ts: the AssetManager (asynchronous *)
(* loading of a fixed catalog of models behind one completion barrier, and  *)
(* the mesh factory) and the SceneManager (the per-tile mesh cache that     *)
(* applyChanges diffs against the city, and the hover/active highlighter).  *)
(*                                                                          *)
(* The city (City, Tile, Building), the model catalog (models.js) and the   *)
(* VehicleGraph are collaborators whose code is not part of the file; they  *)
(* are modelled from their interface as an environment.                     *)
(***************************************************************************)
EXTENDS Integers, Sequences, FiniteSets, TLC

(* ------------------------------ bounds -------------------------------- *)

\* number of model names a catalog is drawn from
MaxModels == 4
\* city.size: the grid is Size x Size
Size == 2
\* number of changes the world model makes in one behaviour
MaxChanges == 2
\* number of highlighter calls in one behaviour
MaxSelects == 3
\* clientWidth and clientHeight of the renderer's element, in pixels
Viewport == 1
\* number of highlighter calls in one behaviour with picks
MaxPickSelects == 2
\* number of highlighter calls in one behaviour with world changes
MaxFrameSelects == 2

(* --------------------------- program constants ------------------------ *)

NoEmission == 0            \* 0x000000
HoverEmission == 5592405   \* 0x555555
ActiveEmission == 11184725 \* 0xaaaa55

(* ------------------------------ the catalog --------------------------- *)

\* keys of models.js, in a fixed order; a catalog is a set of the first MaxModels
AllNames ==
  <<"grass", "residential-A1", "road-straight", "road-corner",
    "commercial-A1", "industrial-A1">>

Min(a, b) == IF a < b THEN a ELSE b

Universe == {AllNames[i] : i \in 1..Min(MaxModels, Len(AllNames))}

\* the catalog the scene is run with: it has a template for the terrain, for the
\* zone and for the straight road of BuildingKinds, and none for the road end
MainCatalog == {"grass", "residential-A1", "road-straight"}

(* ------------------------------ the world ----------------------------- *)

Coord == (0..(Size - 1)) \X (0..(Size - 1))

\* the order in which the nested loops over x and y visit the grid
RECURSIVE CoordsFrom(_, _)
CoordsFrom(x, y) ==
  IF x >= Size THEN <<>>
  ELSE IF y >= Size THEN CoordsFrom(x + 1, 0)
  ELSE <<<<x, y>>>> \o CoordsFrom(x, y + 1)

Order == CoordsFrom(0, 0)

\* the building kinds the world model places: (type, style, hideTerrain)
BuildingKinds ==
  { [type |-> "road", style |-> "straight", hideTerrain |-> TRUE],
    [type |-> "road", style |-> "end", hideTerrain |-> TRUE],
    [type |-> "residential", style |-> "A", hideTerrain |-> FALSE],
    [type |-> "park", style |-> "A", hideTerrain |-> TRUE] }

\* a building as the world model creates it on the tile at c
NewBuilding(k, c) ==
  [type |-> k.type, style |-> k.style, level |-> 1,
   hideTerrain |-> k.hideTerrain, isMeshOutOfDate |-> TRUE,
   x |-> c[1], y |-> c[2]]

\* getTile(x, y): tile = FALSE is a null result; building is <<>> or <<b>>
NullTile == [tile |-> FALSE, building |-> <<>>]
EmptyTile == [tile |-> TRUE, building |-> <<>>]

\* the cities the scene is constructed with: every tile without a building, and
\* getTile returning null for at most one coordinate of the grid
Cities ==
  {[c \in Coord |-> EmptyTile]}
    \cup {[c \in Coord |-> IF c = n THEN NullTile ELSE EmptyTile] : n \in Coord}

\* !tile?.building
HasBuilding(t) == t.tile /\ t.building # <<>>

(* --------------------------- references ------------------------------- *)

\* a slot entry or an object reference: an array hole, null, or a mesh
UndefRef == [kind |-> "undefined", id |-> 0]
NullRef == [kind |-> "null", id |-> 0]
MeshRef(i) == [kind |-> "mesh", id |-> i]

\* JavaScript truthiness of a reference
IsMesh(r) == r.kind = "mesh"

VARIABLES
  catalog,            \* keys of models
  loadState,          \* per name: "pending", "loaded" or "failed"
  meshes,             \* AssetManager.meshes: the names that have a template
  loadedModelCount,   \* AssetManager.loadedModelCount
  readyCount,         \* how often AssetManager.onLoad was invoked
  hostReady,          \* how often the host's onLoad was invoked
  issued,             \* per name: how many load requests were issued
  world,              \* the city: Coord -> tile
  changes,            \* number of world changes so far
  buildings,          \* SceneManager.buildings: columns of slot entries
  terrain,            \* SceneManager.terrain: columns of mesh ids
  root,               \* children of SceneManager.root that are meshes
  inst,               \* every mesh created so far, by id
  vehicleGraph,       \* the road subgraph: Coord -> <<>> or <<road>>
  hoverObject,        \* SceneManager.hoverObject
  activeObject,       \* SceneManager.activeObject
  selects,            \* number of highlighter calls so far
  mouse,              \* SceneManager.mouse, in units of 1/Viewport
  picked,             \* what the last getSelectedObject call returned
  lastPass,           \* what the last applyChanges call did
  seen,               \* the world as the last applyChanges call left it
  prevApply           \* the last scene or world operation was applyChanges

vars ==
  <<catalog, loadState, meshes, loadedModelCount, readyCount, hostReady,
    issued, world, changes, buildings, terrain, root, inst, vehicleGraph,
    hoverObject, activeObject, selects, mouse, picked, lastPass, seen,
    prevApply>>

loaderVars ==
  <<catalog, loadState, meshes, loadedModelCount, readyCount, hostReady,
    issued>>

sceneVars == <<buildings, terrain, root, inst, vehicleGraph>>

selectVars == <<hoverObject, activeObject, selects>>

pickVars == <<mouse, picked>>

\* AssetManager.modelCount
modelCount == Cardinality(catalog)

(* ---------------------------- mesh factory ---------------------------- *)

\* a mesh: a clone of the template called name
Mesh(name, c, pos) ==
  [name |-> name, userData |-> c, position |-> pos, visible |-> TRUE,
   emissive |-> NoEmission, transparent |-> FALSE]

NoMesh == Mesh("", <<0, 0>>, <<0, 0, 0>>)

\* results of the factory functions: a mesh, null, or a thrown TypeError
Made(m) == [kind |-> "mesh", mesh |-> m]
MadeNull == [kind |-> "null", mesh |-> NoMesh]
Thrown == [kind |-> "throw", mesh |-> NoMesh]

\* this.meshes[name].clone(): a TypeError when there is no such template
cloneMesh(have, name, c, pos) ==
  IF name \in have THEN Made(Mesh(name, c, pos)) ELSE Thrown

createGroundMesh(have, c) == cloneMesh(have, "grass", c, <<c[1], 0, c[2]>>)

ZoneModelName(b) == b.type \o "-" \o b.style \o ToString(b.level)

createZoneMesh(have, c, b) ==
  cloneMesh(have, ZoneModelName(b), c, <<b.x, 0, b.y>>)

RoadModelName(b) == b.type \o "-" \o b.style

createRoadMesh(have, c, b) ==
  cloneMesh(have, RoadModelName(b), c, <<b.x, 0, b.y>>)

\* a factory that fails on a building type it has no case for
createBuildingMeshThrows(have, c, t) ==
  IF ~HasBuilding(t) THEN MadeNull
  ELSE LET b == t.building[1]
       IN IF b.type \in {"residential", "commercial", "industrial"}
          THEN createZoneMesh(have, c, b)
          ELSE IF b.type = "road" THEN createRoadMesh(have, c, b)
          ELSE Thrown

createBuildingMesh(have, c, t) ==
  IF ~HasBuilding(t) THEN MadeNull
  ELSE LET b == t.building[1]
       IN IF b.type \in {"residential", "commercial", "industrial"}
          THEN createZoneMesh(have, c, b)
          ELSE IF b.type = "road" THEN createRoadMesh(have, c, b)
          ELSE MadeNull

(* ------------------------------ #initialize --------------------------- *)

\* the scene part of the state, as the operators below thread it
Scene(b, t, r, i, v, w) ==
  [buildings |-> b, terrain |-> t, root |-> r, inst |-> i, vehicleGraph |-> v,
   world |-> w, ops |-> <<>>, vgCalls |-> <<>>, visited |-> <<>>,
   thrown |-> "none"]

\* an uncaught TypeError ends the call; cause names the expression that threw:
\* "slot" (this.buildings[x][y]), "terrain" (this.terrain[x][y].visible) or
\* "template" (this.meshes[name].clone())
Throw(s, cause) == [s EXCEPT !.thrown = cause]

EmptyGraph == [c \in Coord |-> <<>>]

\* [...Array(city.size)]
HoleColumn == [i \in 1..Size |-> UndefRef]

\* the loops of #initialize from (x, y) on; column is the terrain column so far
RECURSIVE InitializeFrom(_, _, _, _, _)
InitializeFrom(s, have, x, y, column) ==
  IF x >= Size THEN s
  ELSE IF y >= Size
  THEN InitializeFrom(
         [s EXCEPT !.buildings = Append(@, HoleColumn),
                   !.terrain = Append(@, column)],
         have, x + 1, 0, <<>>)
  ELSE IF ~s.world[<<x, y>>].tile
  THEN InitializeFrom(s, have, x, y + 1, column)
  ELSE LET made == createGroundMesh(have, <<x, y>>)
           id == Len(s.inst) + 1
       IN IF made.kind = "throw" THEN Throw(s, "template")
          ELSE InitializeFrom(
                 [s EXCEPT !.inst = Append(@, made.mesh),
                           !.root = @ \cup {id}],
                 have, x, y + 1, Append(column, id))

\* #initialize(city): a new vehicle graph, empty arrays, then the loops
initialize(s, have) ==
  InitializeFrom(
    [s EXCEPT !.buildings = <<>>, !.terrain = <<>>,
              !.vehicleGraph = EmptyGraph],
    have, 0, 0, <<>>)

(* ------------------------------ applyChanges -------------------------- *)

\* one scene-graph operation of a pass; changed: it altered root or a slot
Op(op, c, ref, changed) == [op |-> op, c |-> c, ref |-> ref, changed |-> changed]

\* one updateTile(x, y, road | null) call: road is <<>> for null
VgCall(c, road) == [c |-> c, road |-> road]

\* tile?.building?.hideTerrain: "undefined" when the chain is cut short
HideTerrainOf(t) ==
  IF ~t.tile THEN "undefined"
  ELSE IF t.building = <<>> THEN "undefined"
  ELSE IF t.building[1].hideTerrain THEN "true" ELSE "false"

\* JavaScript's !v on "true", "false", "undefined"
JsNot(v) == IF v = "true" THEN "false" ELSE "true"

\* JavaScript's a ?? b
Coalesce(a, b) == IF a \in {"undefined", "null"} THEN b ELSE a

\* !tile?.building?.hideTerrain ?? true, which parses as (!...) ?? true
TerrainVisible(t) == Coalesce(JsNot(HideTerrainOf(t)), "true") = "true"

\* a removal that also takes the highlight off the mesh
RootRemoveUnhighlights(s, c, id) ==
  [s EXCEPT !.root = @ \ {id},
            !.inst = [g \in 1..Len(@) |->
                        IF g = id THEN [@[g] EXCEPT !.emissive = NoEmission]
                        ELSE @[g]],
            !.ops = Append(@, Op("remove", c, MeshRef(id), id \in s.root))]

\* this.root.remove(mesh)
RootRemove(s, c, id) ==
  [s EXCEPT !.root = @ \ {id},
            !.ops = Append(@, Op("remove", c, MeshRef(id), id \in s.root))]

\* this.root.add(ref): three.js logs an error for null and adds nothing
RootAdd(s, c, ref) ==
  [s EXCEPT !.root = IF IsMesh(ref) THEN @ \cup {ref.id} ELSE @,
            !.ops = Append(@, Op("add", c, ref,
                                 IsMesh(ref) /\ ref.id \notin s.root))]

\* this.buildings[x][y] = ref
SlotWrite(s, c, ref) ==
  [s EXCEPT !.buildings[c[1] + 1][c[2] + 1] = ref,
            !.ops = Append(@, Op("slot", c, ref,
                                 s.buildings[c[1] + 1][c[2] + 1] # ref))]

\* this.vehicleGraph.updateTile(x, y, road)
UpdateTile(s, c, road) ==
  [s EXCEPT !.vehicleGraph[c] = road,
            !.vgCalls = Append(@, VgCall(c, road))]

\* a removal that clears the slot and leaves the mesh in root
RemoveBranchKeepsMesh(s, c, existing) ==
  UpdateTile(SlotWrite(s, c, NullRef), c, <<>>)

\* the branch that drops the mesh of a building the player removed
RemoveBranch(s, c, existing) ==
  UpdateTile(SlotWrite(RootRemove(s, c, existing.id), c, NullRef), c, <<>>)

\* a rebuild that forgets to clear the building's isMeshOutOfDate
AfterCreateKeepsFlag(s, c, made) ==
  LET id == Len(s.inst) + 1
      ref == IF made.kind = "mesh" THEN MeshRef(id) ELSE NullRef
      s1 == IF made.kind = "mesh"
            THEN [s EXCEPT !.inst = Append(@, made.mesh)] ELSE s
      s2 == RootAdd(SlotWrite(s1, c, ref), c, ref)
      b == s2.world[c].building[1]
  IN IF b.type = "road" THEN UpdateTile(s2, c, <<b>>) ELSE s2

\* what the rebuild does once createBuildingMesh has returned
AfterCreate(s, c, made) ==
  LET id == Len(s.inst) + 1
      ref == IF made.kind = "mesh" THEN MeshRef(id) ELSE NullRef
      s1 == IF made.kind = "mesh"
            THEN [s EXCEPT !.inst = Append(@, made.mesh)] ELSE s
      s2 == RootAdd(SlotWrite(s1, c, ref), c, ref)
      s3 == [s2 EXCEPT !.world[c].building[1].isMeshOutOfDate = FALSE]
      b == s3.world[c].building[1]
  IN IF b.type = "road" THEN UpdateTile(s3, c, <<b>>) ELSE s3

\* the branch that replaces the mesh of a building flagged out of date
RebuildBranch(s, have, c, existing) ==
  LET s1 == RootRemove(s, c, existing.id)
      made == createBuildingMesh(have, c, s1.world[c])
  IN IF made.kind = "throw" THEN Throw(s1, "template")
     ELSE AfterCreate(s1, c, made)

\* a loop body that rebuilds a flagged building whether or not a mesh is cached
VisitTileSynthesizes(s, have, c) ==
  LET x == c[1] + 1
      y == c[2] + 1
      t == s.world[c]
      v == [s EXCEPT !.visited = Append(@, c)]
  IN IF x > Len(v.buildings) THEN Throw(v, "slot")
     ELSE LET existing == v.buildings[x][y]
          IN IF x > Len(v.terrain) \/ y > Len(v.terrain[x])
             THEN Throw(v, "terrain")
             ELSE LET g == v.terrain[x][y]
                      s1 == [v EXCEPT !.inst[g].visible = TerrainVisible(t)]
                      s2 == IF ~HasBuilding(t) /\ IsMesh(existing)
                            THEN RemoveBranch(s1, c, existing) ELSE s1
                  IN IF HasBuilding(t) /\ t.building[1].isMeshOutOfDate
                     THEN RebuildBranch(s2, have, c, existing) ELSE s2

\* the body of the loops of applyChanges at coordinate c
VisitTile(s, have, c) ==
  LET x == c[1] + 1
      y == c[2] + 1
      t == s.world[c]
      v == [s EXCEPT !.visited = Append(@, c)]
  IN IF x > Len(v.buildings) THEN Throw(v, "slot")
     ELSE LET existing == v.buildings[x][y]
          IN IF x > Len(v.terrain) \/ y > Len(v.terrain[x])
             THEN Throw(v, "terrain")
             ELSE LET g == v.terrain[x][y]
                      s1 == [v EXCEPT !.inst[g].visible = TerrainVisible(t)]
                      s2 == IF ~HasBuilding(t) /\ IsMesh(existing)
                            THEN RemoveBranch(s1, c, existing) ELSE s1
                  IN IF HasBuilding(t) /\ t.building[1].isMeshOutOfDate
                        /\ IsMesh(existing)
                     THEN RebuildBranch(s2, have, c, existing) ELSE s2

\* the loops of applyChanges from the i-th coordinate on; a throw ends them
RECURSIVE ApplyFrom(_, _, _)
ApplyFrom(s, have, i) ==
  IF i > Len(Order) \/ s.thrown # "none" THEN s
  ELSE ApplyFrom(VisitTile(s, have, Order[i]), have, i + 1)

applyChanges(s, have) == ApplyFrom(s, have, 1)

(* ------------------------------ highlighter --------------------------- *)

\* #setMeshEmission(mesh, color): nothing for null
setMeshEmission(i, ref, color) ==
  IF IsMesh(ref) THEN [i EXCEPT ![ref.id].emissive = color] ELSE i

\* a setHighlightedMesh that leaves the highlight on the previous hover object
HighlightedEmissionKeepsOld(i, hover, active, mesh) ==
  IF IsMesh(mesh) THEN setMeshEmission(i, mesh, HoverEmission) ELSE i

\* the meshes after setHighlightedMesh(mesh)
HighlightedEmission(i, hover, active, mesh) ==
  LET i1 == IF IsMesh(hover) /\ hover # active
            THEN setMeshEmission(i, hover, NoEmission) ELSE i
  IN IF IsMesh(mesh) THEN setMeshEmission(i1, mesh, HoverEmission) ELSE i1

\* the meshes after setActiveObject(object)
ActiveEmissionOf(i, active, object) ==
  setMeshEmission(setMeshEmission(i, active, NoEmission), object,
                  ActiveEmission)

\* every reference a caller can hold: null or a mesh created so far
Refs == {NullRef} \cup {MeshRef(k) : k \in 1..Len(inst)}

(* ------------------------------- picker ------------------------------- *)

\* the pointer positions of an event: clientX, clientY
Pointer == (0..Viewport) \X (0..Viewport)

\* (clientX / clientWidth) * 2 - 1 and -(clientY / clientHeight) * 2 + 1,
\* both in units of 1/Viewport
Normalized(e) == <<2 * e[1] - Viewport, Viewport - 2 * e[2]>>

\* what raycaster.intersectObjects(root.children, true) can return: the meshes
\* under root that the ray meets, nearest first (the geometry and the camera
\* decide which)
Intersections ==
  {<<>>} \cup {<<i>> : i \in root}
    \cup {<<p[1], p[2]>> : p \in {q \in root \X root : q[1] # q[2]}}

\* a pick that answers with the hover object when the ray meets nothing
PickResultKeepsHover(hits) ==
  IF Len(hits) > 0 THEN MeshRef(hits[1]) ELSE hoverObject

\* intersections.length > 0 ? intersections[0].object : null
PickResult(hits) == IF Len(hits) > 0 THEN MeshRef(hits[1]) ELSE NullRef

(* ------------------------------- loader ------------------------------- *)

\* a barrier that is off by one
AllLoadedOffByOne(count) == count + 1 = modelCount

\* if (this.loadedModelCount == this.modelCount)
AllLoaded(count) == count = modelCount

\* an error callback that counts the failed load as a completion
CountAfterErrorIncrements(count) == count + 1

\* loadedModelCount after the error callback
CountAfterError(count) == count

\* load requests issued for a name after its error callback
IssuedAfterError(k) == k

\* a ready callback that invokes the host's onLoad before #initialize
HostReadyFirst(count, s) == count + 1

\* this.#initialize(city); onLoad(): how often the host's onLoad has run after
\* the ready callback; an exception in #initialize ends the callback before it
HostReadyAfter(count, s) == IF s.thrown # "none" THEN count ELSE count + 1

\* the state after construction, for a catalog drawn from cats
InitWith(cats) ==
  /\ catalog \in cats
  /\ world \in Cities
  /\ loadState = [n \in catalog |-> "pending"]
  /\ issued = [n \in catalog |-> 1]
  /\ meshes = {}
  /\ loadedModelCount = 0
  /\ readyCount = 0
  /\ hostReady = 0
  /\ changes = 0
  /\ buildings = <<>>
  /\ terrain = <<>>
  /\ root = {}
  /\ inst = <<>>
  /\ vehicleGraph = EmptyGraph
  /\ hoverObject = NullRef
  /\ activeObject = NullRef
  /\ selects = 0
  /\ mouse = <<0, 0>>
  /\ picked = NullRef
  /\ lastPass = [ops |-> <<>>, vgCalls |-> <<>>, visited |-> <<>>,
                 thrown |-> "none", again |-> FALSE, before |-> 0]
  /\ seen = world
  /\ prevApply = FALSE

\* the program with the main catalog
Init == InitWith({MainCatalog})

\* the program with any catalog that is not empty
InitLoad == InitWith(SUBSET Universe \ {{}})

\* the success callback of loadModel for name n; when the last one arrives it
\* runs the scene's ready callback: #initialize(city), then the host's onLoad
LoadSuccess(n) ==
  /\ n \in catalog
  /\ loadState[n] = "pending"
  /\ loadState' = [loadState EXCEPT ![n] = "loaded"]
  /\ meshes' = meshes \cup {n}
  /\ loadedModelCount' = loadedModelCount + 1
  /\ IF AllLoaded(loadedModelCount')
     THEN LET s == initialize(Scene(buildings, terrain, root, inst,
                                    vehicleGraph, world), meshes')
          IN /\ readyCount' = readyCount + 1
             /\ buildings' = s.buildings
             /\ terrain' = s.terrain
             /\ root' = s.root
             /\ inst' = s.inst
             /\ vehicleGraph' = s.vehicleGraph
             /\ hostReady' = HostReadyAfter(hostReady, s)
             /\ prevApply' = FALSE
     ELSE UNCHANGED <<readyCount, hostReady, sceneVars, prevApply>>
  /\ UNCHANGED <<catalog, issued, world, changes, selectVars, pickVars,
                 lastPass, seen>>

\* the error callback of loadModel for name n: console.error(error)
LoadError(n) ==
  /\ n \in catalog
  /\ loadState[n] = "pending"
  /\ loadState' = [loadState EXCEPT ![n] = "failed"]
  /\ loadedModelCount' = CountAfterError(loadedModelCount)
  /\ issued' = [issued EXCEPT ![n] = IssuedAfterError(@)]
  /\ UNCHANGED <<catalog, meshes, readyCount, hostReady, world, changes,
                 sceneVars, selectVars, pickVars, lastPass, seen, prevApply>>

(* ----------------------------- world model ---------------------------- *)

\* the player places a building of kind k on the tile at c
PlaceBuilding(limit, c, k) ==
  /\ changes < limit
  /\ world[c].tile
  /\ world[c].building = <<>>
  /\ world' = [world EXCEPT ![c].building = <<NewBuilding(k, c)>>]
  /\ changes' = changes + 1
  /\ prevApply' = FALSE
  /\ UNCHANGED <<loaderVars, sceneVars, selectVars, pickVars, lastPass, seen>>

\* the player removes the building of the tile at c
RemoveBuilding(limit, c) ==
  /\ changes < limit
  /\ HasBuilding(world[c])
  /\ world' = [world EXCEPT ![c].building = <<>>]
  /\ changes' = changes + 1
  /\ prevApply' = FALSE
  /\ UNCHANGED <<loaderVars, sceneVars, selectVars, pickVars, lastPass, seen>>

\* the world model changes the building of the tile at c (a road whose style
\* follows its neighbours, a rebuilt lot) or only flags it as out of date
UpdateBuilding(limit, c, k) ==
  /\ changes < limit
  /\ HasBuilding(world[c])
  /\ world[c].building[1] # NewBuilding(k, c)
  /\ world' = [world EXCEPT ![c].building = <<NewBuilding(k, c)>>]
  /\ changes' = changes + 1
  /\ prevApply' = FALSE
  /\ UNCHANGED <<loaderVars, sceneVars, selectVars, pickVars, lastPass, seen>>

\* the placement path creates the first mesh of the building at c and caches it
PlaceMesh(c) ==
  LET made == createBuildingMesh(meshes, c, world[c])
      id == Len(inst) + 1
  IN /\ c[1] + 1 <= Len(buildings)
     /\ ~IsMesh(buildings[c[1] + 1][c[2] + 1])
     /\ made.kind = "mesh"
     /\ inst' = Append(inst, made.mesh)
     /\ buildings' = [buildings EXCEPT ![c[1] + 1][c[2] + 1] = MeshRef(id)]
     /\ root' = root \cup {id}
     /\ prevApply' = FALSE
     /\ UNCHANGED <<loaderVars, world, changes, terrain, vehicleGraph,
                    selectVars, pickVars, lastPass, seen>>

(* ------------------------------ the scene ----------------------------- *)

\* how many operations of a pass altered root or a slot
NumChanged(ops) == Cardinality({i \in 1..Len(ops) : ops[i].changed})

\* applyChanges(city), the whole call; an exception ends it where it is thrown
ApplyChanges ==
  LET s == applyChanges(Scene(buildings, terrain, root, inst, vehicleGraph,
                              world), meshes)
  IN /\ buildings' = s.buildings
     /\ terrain' = s.terrain
     /\ root' = s.root
     /\ inst' = s.inst
     /\ vehicleGraph' = s.vehicleGraph
     /\ world' = s.world
     /\ lastPass' = [ops |-> s.ops, vgCalls |-> s.vgCalls,
                     visited |-> s.visited, thrown |-> s.thrown,
                     again |-> prevApply,
                     before |-> IF prevApply THEN NumChanged(lastPass.ops)
                                ELSE 0]
     /\ seen' = s.world
     /\ prevApply' = TRUE
     /\ UNCHANGED <<loaderVars, changes, selectVars, pickVars>>

\* setHighlightedMesh(mesh)
SetHighlightedMesh(limit, mesh) ==
  /\ selects < limit
  /\ mesh \in Refs
  /\ inst' = HighlightedEmission(inst, hoverObject, activeObject, mesh)
  /\ hoverObject' = mesh
  /\ selects' = selects + 1
  /\ UNCHANGED <<loaderVars, world, changes, buildings, terrain, root,
                 vehicleGraph, activeObject, pickVars, lastPass, seen,
                 prevApply>>

\* setActiveObject(object)
SetActiveObject(limit, object) ==
  /\ selects < limit
  /\ object \in Refs
  /\ inst' = ActiveEmissionOf(inst, activeObject, object)
  /\ activeObject' = object
  /\ selects' = selects + 1
  /\ UNCHANGED <<loaderVars, world, changes, buildings, terrain, root,
                 vehicleGraph, hoverObject, pickVars, lastPass, seen,
                 prevApply>>

\* getSelectedObject(event), the ray meeting the meshes hits
GetSelectedObject(e, hits) ==
  /\ e \in Pointer
  /\ hits \in Intersections
  /\ mouse' = Normalized(e)
  /\ picked' = PickResult(hits)
  /\ UNCHANGED <<loaderVars, world, changes, sceneVars, selectVars, lastPass,
                 seen, prevApply>>

\* the entry of the slot array b at coordinate c; a hole where b has no column
SlotAt(b, c) ==
  IF c[1] + 1 <= Len(b) THEN b[c[1] + 1][c[2] + 1] ELSE UndefRef

(* --------------------------- specifications --------------------------- *)

\* loader, world model and scene synchronisation; a load that fails leaves the
\* scene where a load that never completes leaves it, so only SpecLoad has both
Next ==
  \/ \E n \in catalog : LoadSuccess(n)
  \/ \E c \in Coord, k \in BuildingKinds : PlaceBuilding(MaxChanges, c, k)
  \/ \E c \in Coord : RemoveBuilding(MaxChanges, c)
  \/ \E c \in Coord, k \in BuildingKinds : UpdateBuilding(MaxChanges, c, k)
  \/ \E c \in Coord : PlaceMesh(c)
  \/ ApplyChanges

Spec == Init /\ [][Next]_vars

\* the loader alone, for every catalog
NextLoad ==
  \/ \E n \in catalog : LoadSuccess(n)
  \/ \E n \in catalog : LoadError(n)

SpecLoad == InitLoad /\ [][NextLoad]_vars

\* the highlighter, on the meshes that #initialize creates
NextSelect ==
  \/ \E n \in catalog : LoadSuccess(n)
  \/ \E r \in Refs : SetHighlightedMesh(MaxSelects, r)
  \/ \E r \in Refs : SetActiveObject(MaxSelects, r)

SpecSelect == Init /\ [][NextSelect]_vars

\* the world model and applyChanges alone: no other path creates a mesh
NextSync ==
  \/ \E n \in catalog : LoadSuccess(n)
  \/ \E c \in Coord, k \in BuildingKinds : PlaceBuilding(MaxChanges, c, k)
  \/ \E c \in Coord : RemoveBuilding(MaxChanges, c)
  \/ \E c \in Coord, k \in BuildingKinds : UpdateBuilding(MaxChanges, c, k)
  \/ ApplyChanges

SpecSync == Init /\ [][NextSync]_vars

\* the meshes the building slots hold
CachedRefs == {SlotAt(buildings, c) : c \in {d \in Coord : IsMesh(SlotAt(buildings, d))}}

\* synchronisation next to the highlighter, which is called on building meshes
NextFrame ==
  \/ \E n \in catalog : LoadSuccess(n)
  \/ \E c \in Coord, k \in BuildingKinds : PlaceBuilding(MaxChanges, c, k)
  \/ \E c \in Coord : RemoveBuilding(MaxChanges, c)
  \/ \E c \in Coord, k \in BuildingKinds : UpdateBuilding(MaxChanges, c, k)
  \/ \E c \in Coord : PlaceMesh(c)
  \/ ApplyChanges
  \/ \E r \in CachedRefs : SetHighlightedMesh(MaxFrameSelects, r)
  \/ \E r \in CachedRefs : SetActiveObject(MaxFrameSelects, r)

SpecFrame == Init /\ [][NextFrame]_vars

\* the picker next to the highlighter
NextPick ==
  \/ \E n \in catalog : LoadSuccess(n)
  \/ \E r \in Refs : SetHighlightedMesh(MaxPickSelects, r)
  \/ \E r \in Refs : SetActiveObject(MaxPickSelects, r)
  \/ \E e \in Pointer, hits \in Intersections : GetSelectedObject(e, hits)

SpecPick == Init /\ [][NextPick]_vars

(* ------------------------------- claims ------------------------------- *)

\* number of loads whose success callback has run
Completed == Cardinality({n \in catalog : loadState[n] = "loaded"})

(* C1: for every catalog that is not empty and every order of the success    *)
(* callbacks, the ready callback has fired iff the number of successful      *)
(* completions equals the catalog size; it has not fired while fewer have    *)
(* completed, and it never fires twice.                                      *)
C1_ReadyExactlyOnce ==
  /\ readyCount \in {0, 1}
  /\ readyCount = 1 <=> Completed = modelCount

\* a catalog of several models has loaded completely and ready has fired
C1_Witness == modelCount >= 2 /\ Completed = modelCount /\ readyCount = 1

(* C2: a load that failed or has not completed has no template and was       *)
(* requested once only, the counter counts the successful completions alone, *)
(* ready has not fired while such a load exists, and a failed load stays     *)
(* failed, so ready never fires afterwards whatever else succeeds.           *)
C2_FailedLoadWithholdsReady ==
  /\ [](\A n \in catalog :
         loadState[n] # "loaded" =>
           n \notin meshes /\ issued[n] = 1 /\ readyCount = 0)
  /\ [](loadedModelCount = Completed)
  /\ [][\A n \in catalog :
          loadState[n] = "failed" =>
            loadState'[n] = "failed" /\ readyCount' = 0]_vars

\* one load has failed, every other load has succeeded, ready has not fired
C2_Witness ==
  /\ modelCount >= 2
  /\ \E n \in catalog :
       /\ loadState[n] = "failed"
       /\ \A m \in catalog \ {n} : loadState[m] = "loaded"
  /\ readyCount = 0

TerrainComplete ==
  /\ Len(terrain) = Size
  /\ \A x \in 1..Size : Len(terrain[x]) = Size

\* the building types createBuildingMesh has a case for
Recognized(type) ==
  type \in {"residential", "commercial", "industrial", "road"}

\* the tiles that differ from what the last applyChanges call left
ChangedTiles == {c \in Coord : world[c] # seen[c]}

\* since the last call the building at c was removed
Removed(c) == HasBuilding(seen[c]) /\ ~HasBuilding(world[c])

\* since the last call the building at c was flagged out of date
FlaggedStale(c) ==
  /\ HasBuilding(seen[c])
  /\ ~seen[c].building[1].isMeshOutOfDate
  /\ HasBuilding(world[c])
  /\ world[c].building[1].isMeshOutOfDate

\* the cached mesh at d, if any, needs neither removal nor rebuild
InSync(d) ==
  IsMesh(SlotAt(buildings, d)) =>
    HasBuilding(world[d]) /\ ~world[d].building[1].isMeshOutOfDate

\* the updateTile calls of a pass for the coordinate c
CallsFor(calls, c) == {i \in 1..Len(calls) : calls[i].c = c}

(* C4: when, since the previous call, the world changed at exactly one tile  *)
(* (its building was removed or flagged out of date), the call removes       *)
(* exactly one mesh from root, adds exactly one afterwards when the tile was *)
(* flagged, and leaves the slot, the scene membership and the road-graph     *)
(* entry of every other tile as they were. Stated for the case that the tile *)
(* has a mesh cached and in the scene, its building is of a recognized type, *)
(* every terrain slot exists and no other tile needs work.                   *)
C4_DiffMinimality ==
  [][(ApplyChanges /\ lastPass.visited # <<>> /\ TerrainComplete) =>
       \A c \in Coord :
         (/\ ChangedTiles = {c}
          /\ IsMesh(SlotAt(buildings, c))
          /\ SlotAt(buildings, c).id \in root
          /\ \/ Removed(c)
             \/ FlaggedStale(c) /\ Recognized(world[c].building[1].type)
          /\ \A d \in Coord \ {c} : InSync(d))
         => LET ops == lastPass'.ops
                removes == {i \in 1..Len(ops) : ops[i].op = "remove"}
                adds == {i \in 1..Len(ops) : ops[i].op = "add"}
            IN /\ Cardinality(removes) = 1
               /\ \A i \in removes : ops[i].c = c /\ ops[i].changed
               /\ IF Removed(c) THEN adds = {}
                  ELSE /\ Cardinality(adds) = 1
                       /\ \A i \in adds :
                            /\ ops[i].c = c
                            /\ ops[i].changed
                            /\ \A j \in removes : j < i
               /\ \A d \in Coord \ {c} :
                    /\ SlotAt(buildings', d) = SlotAt(buildings, d)
                    /\ vehicleGraph'[d] = vehicleGraph[d]
                    /\ IsMesh(SlotAt(buildings, d)) =>
                         (SlotAt(buildings, d).id \in root'
                            <=> SlotAt(buildings, d).id \in root)]_vars

(* C5: setHighlightedMesh(a) for the active mesh a leaves a's emissive color *)
(* the active color, and setHighlightedMesh(null) after it leaves a's        *)
(* emissive color the active color.                                          *)
C5_ActiveWinsOverHover ==
  [][/\ (IsMesh(activeObject)
          /\ SetHighlightedMesh(MaxSelects, activeObject))
        => inst'[activeObject.id].emissive = ActiveEmission
     /\ (IsMesh(activeObject) /\ hoverObject = activeObject
          /\ SetHighlightedMesh(MaxSelects, NullRef))
        => inst'[activeObject.id].emissive = ActiveEmission]_vars

(* C6: for every tile whose building is flagged out of date and has a mesh   *)
(* cached, one call removes the cached mesh from root, creates a new mesh of *)
(* the model the building names (a road: type-style), puts it in root and in *)
(* the slot, clears the flag, and calls updateTile(x, y, road) exactly when  *)
(* the building is a road. Stated for buildings of a recognized type in a    *)
(* scene where every terrain slot exists.                                    *)
C6_StaleRebuild ==
  [][(ApplyChanges /\ TerrainComplete) =>
       \A c \in Coord :
         (/\ HasBuilding(world[c])
          /\ world[c].building[1].isMeshOutOfDate
          /\ IsMesh(SlotAt(buildings, c))
          /\ Recognized(world[c].building[1].type))
         => LET old == SlotAt(buildings, c)
                new == SlotAt(buildings', c)
                b == world[c].building[1]
                calls == lastPass'.vgCalls
            IN /\ old.id \notin root'
               /\ IsMesh(new)
               /\ new.id > Len(inst)
               /\ new.id \in root'
               /\ inst'[new.id].name =
                    (IF b.type = "road" THEN b.type \o "-" \o b.style
                     ELSE b.type \o "-" \o b.style \o ToString(b.level))
               /\ ~world'[c].building[1].isMeshOutOfDate
               /\ IF b.type = "road"
                  THEN /\ Cardinality(CallsFor(calls, c)) = 1
                       /\ \A i \in CallsFor(calls, c) :
                            calls[i].road = world'[c].building
                  ELSE CallsFor(calls, c) = {}]_vars

(* C7: for every tile that has no building while a mesh is still cached in   *)
(* its slot, one call removes that mesh from root, sets the slot to null and *)
(* calls updateTile(x, y, null) exactly once for the coordinate.             *)
C7_BuildingRemoval ==
  [][ApplyChanges =>
       \A c \in Coord :
         (~HasBuilding(world[c]) /\ IsMesh(SlotAt(buildings, c)))
         => LET calls == lastPass'.vgCalls
            IN /\ SlotAt(buildings, c).id \notin root'
               /\ SlotAt(buildings', c) = NullRef
               /\ Cardinality(CallsFor(calls, c)) = 1
               /\ \A i \in CallsFor(calls, c) : calls[i].road = <<>>]_vars

(* C8: after every call of applyChanges, the terrain mesh of every           *)
(* coordinate is hidden iff the tile there has a building that hides the     *)
(* terrain, and visible otherwise; the call replaces no terrain mesh.        *)
C8_TerrainVisibility ==
  [][ApplyChanges =>
       /\ terrain' = terrain
       /\ \A g \in 1..Len(inst') :
            inst'[g].name = "grass" =>
              LET t == world'[inst'[g].userData]
              IN inst'[g].visible
                   <=> ~(HasBuilding(t) /\ t.building[1].hideTerrain)]_vars

(* C9: no call of applyChanges ends in an exception thrown on a missing      *)
(* entry of the building or terrain slot arrays.                             *)
C9_NoThrowOnMissingSlot == lastPass.thrown \notin {"slot", "terrain"}

(* C10: a missing template does not end a call of applyChanges in an         *)
(* exception, and no slot holds a mesh that is not in the scene graph.       *)
C10_MissingTemplateContained ==
  /\ lastPass.thrown # "template"
  /\ \A c \in Coord :
       IsMesh(SlotAt(buildings, c)) => SlotAt(buildings, c).id \in root

\* the terrain slot of c exists: the pass gets past the visibility write at c
HasTerrainSlot(c) ==
  c[1] + 1 <= Len(terrain) /\ c[2] + 1 <= Len(terrain[c[1] + 1])

\* the place of c in a list of coordinates, 0 when it is not in the list
IndexOf(list, c) ==
  IF \E i \in 1..Len(list) : list[i] = c
  THEN CHOOSE i \in 1..Len(list) : list[i] = c
  ELSE 0

\* the tile at c is flagged out of date, has a mesh cached, and its building
\* is of a type createBuildingMesh has no case for
StaleUnrecognized(c) ==
  /\ HasBuilding(world[c])
  /\ world[c].building[1].isMeshOutOfDate
  /\ IsMesh(SlotAt(buildings, c))
  /\ ~Recognized(world[c].building[1].type)

C12_HoverActiveIndependent ==
  [][/\ SetHighlightedMesh(MaxSelects, NullRef)
        => /\ activeObject' = activeObject
           /\ IsMesh(activeObject)
                => inst'[activeObject.id].emissive
                     = inst[activeObject.id].emissive
     /\ SetActiveObject(MaxSelects, NullRef)
        => /\ hoverObject' = hoverObject
           /\ (IsMesh(hoverObject)
                 /\ inst[hoverObject.id].emissive = HoverEmission)
                => inst'[hoverObject.id].emissive = HoverEmission]_vars

(* C13: setHighlightedMesh(h) for the value h that is already the hover      *)
(* reference, and setActiveObject(a) for the value a that is already the     *)
(* active reference, leave the hover reference, the active reference and the *)
(* emissive color of every mesh as they were.                                *)
C13_SetIsIdempotent ==
  [][/\ SetHighlightedMesh(MaxSelects, hoverObject)
        => /\ hoverObject' = hoverObject
           /\ activeObject' = activeObject
           /\ inst' = inst
     /\ SetActiveObject(MaxSelects, activeObject)
        => /\ hoverObject' = hoverObject
           /\ activeObject' = activeObject
           /\ inst' = inst]_vars

\* some getSelectedObject call
SomePick == \E e \in Pointer, hits \in Intersections : GetSelectedObject(e, hits)

(* C14: a getSelectedObject call whose ray meets no object under root        *)
(* returns null, and every call, whatever the ray meets, leaves the hover    *)
(* reference, the active reference, every emissive color, the building and   *)
(* terrain slots and the children of root as they were.                      *)
C14_PickIsPure ==
  [][/\ (\E e \in Pointer : GetSelectedObject(e, <<>>)) => picked' = NullRef
     /\ SomePick
        => /\ hoverObject' = hoverObject
           /\ activeObject' = activeObject
           /\ inst' = inst
           /\ buildings' = buildings
           /\ terrain' = terrain
           /\ root' = root]_vars

\* a pick away from the centre has met nothing and returned null while one
\* mesh is hovered and another one is active
C14_Witness ==
  /\ mouse # <<0, 0>>
  /\ picked = NullRef
  /\ IsMesh(hoverObject)
  /\ IsMesh(activeObject)
  /\ hoverObject # activeObject

(* C15: ready fires in the step of the last of the N successful completions  *)
(* and not before; the completion counter changes only by one, together with *)
(* a successful completion, and never exceeds N; when ready has fired every  *)
(* catalog name has a template; the host's onLoad runs only in the ready     *)
(* callback and only after #initialize has built the slot arrays; and before *)
(* ready no mesh is in the scene graph or in a slot.                         *)
C15_BarrierOrdering ==
  /\ [](/\ loadedModelCount <= modelCount
        /\ hostReady <= readyCount
        /\ readyCount >= 1 => (Completed = modelCount /\ meshes = catalog)
        /\ readyCount = 0
             => (root = {} /\ inst = <<>> /\ terrain = <<>> /\ buildings = <<>>))
  /\ [][/\ loadedModelCount' # loadedModelCount
           => /\ loadedModelCount' = loadedModelCount + 1
              /\ Completed' = Completed + 1
        /\ readyCount' # readyCount
           => /\ readyCount' = readyCount + 1
              /\ Completed = modelCount - 1
              /\ Completed' = modelCount
        /\ hostReady' # hostReady
           => /\ readyCount' = readyCount + 1
              /\ Len(buildings') = Size
              /\ Len(terrain') = Size
              /\ root' # {}]_vars

\* a catalog of several models is loaded, #initialize has put the terrain into
\* the scene graph and the host's onLoad has run
C15_Witness ==
  /\ modelCount >= 2
  /\ readyCount = 1
  /\ hostReady = 1
  /\ Len(terrain) = Size
  /\ root # {}

(* C16: when #initialize has run, for every coordinate (x, y) that has a     *)
(* tile the terrain slot [x][y] holds the terrain mesh created for that tile *)
(* (userData the tile, position (x, 0, y)) and that mesh is in root, every   *)
(* building slot is empty and no building mesh is in root.                   *)
C16_InitializeTerrain ==
  [][hostReady' = hostReady + 1 =>
       /\ \A c \in Coord :
            world[c].tile =>
              /\ c[1] + 1 <= Len(terrain')
              /\ c[2] + 1 <= Len(terrain'[c[1] + 1])
              /\ LET g == terrain'[c[1] + 1][c[2] + 1]
                 IN /\ inst'[g].name = "grass"
                    /\ inst'[g].userData = c
                    /\ inst'[g].position = <<c[1], 0, c[2]>>
                    /\ g \in root'
       /\ \A c \in Coord : ~IsMesh(SlotAt(buildings', c))
       /\ \A g \in root' : inst'[g].name = "grass"]_vars

(* C17: for every tile that has a building and no mesh in its building slot, *)
(* a call of applyChanges performs no scene-graph operation and no           *)
(* updateTile call for the tile, creates no mesh for it, leaves its slot and *)
(* its building (the isMeshOutOfDate flag included) as they were; and with   *)
(* #initialize and applyChanges as the only operations on the slots, no      *)
(* building slot ever holds a mesh and no building mesh is ever in root,     *)
(* whatever the world model does.                                            *)
C17_NoFirstMesh ==
  /\ [](/\ \A c \in Coord : ~IsMesh(SlotAt(buildings, c))
        /\ \A g \in 1..Len(inst) : inst[g].name = "grass")
  /\ [][ApplyChanges =>
          \A c \in Coord :
            (HasBuilding(world[c]) /\ ~IsMesh(SlotAt(buildings, c)))
            => /\ SlotAt(buildings', c) = SlotAt(buildings, c)
               /\ world'[c] = world[c]
               /\ \A i \in 1..Len(lastPass'.ops) : lastPass'.ops[i].c # c
               /\ CallsFor(lastPass'.vgCalls, c) = {}
               /\ vehicleGraph'[c] = vehicleGraph[c]
               /\ \A g \in (Len(inst) + 1)..Len(inst') :
                    inst'[g].userData # c]_vars

\* a pass has run over the whole grid while a tile holds a building that is
\* flagged out of date and has no mesh: the flag is still set afterwards
C17_Witness ==
  /\ prevApply
  /\ lastPass.thrown = "none"
  /\ lastPass.visited = Order
  /\ \E c \in Coord :
       /\ HasBuilding(world[c])
       /\ world[c].building[1].isMeshOutOfDate
       /\ world[c].building[1].type = "road"
       /\ ~IsMesh(SlotAt(buildings, c))

\* the last operation was an applyChanges call that ran over the whole grid
PassCompleted ==
  prevApply /\ lastPass.thrown = "none" /\ lastPass.visited = Order

(* C18: in the state a completed applyChanges call leaves, every building    *)
(* slot that holds a mesh belongs to a tile that has a building, that mesh   *)
(* is a child of root, the building's isMeshOutOfDate flag is clear, and     *)
(* every building mesh in root is the mesh of some slot (a mesh taken out of *)
(* its slot is not in the scene graph any more).                             *)
C18_SlotConsistency ==
  PassCompleted =>
    /\ \A c \in Coord :
         IsMesh(SlotAt(buildings, c))
         => /\ HasBuilding(world[c])
            /\ SlotAt(buildings, c).id \in root
            /\ ~world[c].building[1].isMeshOutOfDate
    /\ \A g \in root :
         inst[g].name # "grass"
         => \E c \in Coord : SlotAt(buildings, c) = MeshRef(g)

\* a completed pass has taken a mesh out of root and a slot holds a mesh
C18_Witness ==
  /\ PassCompleted
  /\ \E c \in Coord : IsMesh(SlotAt(buildings, c))
  /\ \E i \in 1..Len(lastPass.ops) :
       lastPass.ops[i].op = "remove" /\ lastPass.ops[i].changed

(* C19: after any sequence of setHighlightedMesh and setActiveObject calls   *)
(* from hoverObject = activeObject = null, every mesh that is neither the    *)
(* hover object nor the active object has the emissive color 0x000000.       *)
C19_OnlySelectedHighlighted ==
  \A g \in 1..Len(inst) :
    (MeshRef(g) # hoverObject /\ MeshRef(g) # activeObject)
    => inst[g].emissive = NoEmission

\* after MaxSelects calls one mesh is hovered, another one is active, and a
\* third one is neither
C19_Witness ==
  /\ selects = MaxSelects
  /\ IsMesh(hoverObject)
  /\ IsMesh(activeObject)
  /\ hoverObject # activeObject
  /\ \E g \in 1..Len(inst) :
       MeshRef(g) # hoverObject /\ MeshRef(g) # activeObject

(* C20: a call of applyChanges writes neither the hover reference nor the    *)
(* active reference nor the emissive color of any mesh, and gives a mesh it  *)
(* creates no highlight, also when the mesh it removes or replaces is the    *)
(* hover object or the active object: after the call the reference still     *)
(* names the mesh that is no longer in root.                                 *)
C20_SyncKeepsSelection ==
  [][ApplyChanges =>
       /\ hoverObject' = hoverObject
       /\ activeObject' = activeObject
       /\ \A g \in 1..Len(inst) : inst'[g].emissive = inst[g].emissive
       /\ \A g \in (Len(inst) + 1)..Len(inst') :
            inst'[g].emissive = NoEmission]_vars

\* after a pass the hover object is a highlighted mesh that the pass took out
\* of root, and so is the active object
C20_Witness ==
  /\ prevApply
  /\ IsMesh(hoverObject)
  /\ hoverObject.id \notin root
  /\ inst[hoverObject.id].emissive # NoEmission
  /\ IsMesh(activeObject)
  /\ activeObject.id \notin root
  /\ inst[activeObject.id].emissive # NoEmission
  /\ \E i \in 1..Len(lastPass.ops) :
       /\ lastPass.ops[i].op = "remove"
       /\ lastPass.ops[i].changed

====
